---- MODULE Spec2Model ----
(***************************************************************************)
(* Model of cirq/google/xmon_gates.py: the xmon gate catalog (ExpZGate,    *)
(* ExpWGate, Exp11Gate, XmonMeasurementGate), the canonicalization of      *)
(* half-turn parameters, and the codec between gates-on-qubits and         *)
(* operations_pb2.Operation wire messages.                                 *)
(*                                                                         *)
(* Numbers.  Half-turn values are exact multiples of 1/(2*Res) half turns  *)
(* and are stored as the integer multiple, so 1 half turn is One = 2*Res   *)
(* and 0.5 is Half = Res.  On such dyadic values the float arithmetic of   *)
(* the source (%, +, -, unary -, float()) is exact.                        *)
(***************************************************************************)
EXTENDS Integers, Sequences, FiniteSets, TLC

\* Grid resolution: number of grid steps per 0.5 half turns.
Res == 2
\* Raw constructor / wire inputs range over -(2*Wraps+1) .. (2*Wraps+1) half turns.
Wraps == 1
\* The longest operand list passed to to_proto.
MaxQubits == 3

Half == Res
One == 2 * Res
Two == 2 * One

SymbolNames == {"alpha", "beta"}
Keys == {"m", "z"}
Qubits == {"q0", "q1"}

----------------------------------------------------------------------------
(* Parameter values: Union[Symbol, float].                                  *)

Float(x) == [kind |-> "float", raw |-> x, name |-> ""]
Symbol(n) == [kind |-> "Symbol", raw |-> 0, name |-> n]
\* The parameter slot of a gate type that has no such parameter.
Absent == [kind |-> "absent", raw |-> 0, name |-> ""]

IsSymbol(p) == p.kind = "Symbol"
IsFloat(p) == p.kind = "float"

RawFloats == {Float(x) : x \in -((2 * Wraps + 1) * One)..((2 * Wraps + 1) * One)}
Symbols == {Symbol(n) : n \in SymbolNames}
RawParams == RawFloats \cup Symbols
\* Inputs already inside (-1, 1].
RangeParams == {Float(x) : x \in (1 - One)..One} \cup Symbols

\* -x and x + d on parameters the source only ever applies to floats.
Neg(p) == Float(0 - p.raw)
Plus(p, d) == Float(p.raw + d)

canonicalize_half_turns_ge(half_turns) ==
    IF IsSymbol(half_turns) THEN half_turns
    ELSE LET m == half_turns.raw % Two
         IN  Float(IF m >= One THEN m - Two ELSE m)

canonicalize_half_turns(half_turns) ==
    IF IsSymbol(half_turns) THEN half_turns
    ELSE LET m == half_turns.raw % Two
         IN  Float(IF m > One THEN m - Two ELSE m)

----------------------------------------------------------------------------
(* Gates.  One record shape for every gate class.                           *)

Gate(t, h, a, k) == [type |-> t, half_turns |-> h, axis_half_turns |-> a, key |-> k]
NoGate == Gate("None", Absent, Absent, "")

ExpZGate(half_turns) ==
    Gate("ExpZGate", canonicalize_half_turns(half_turns), Absent, "")

Exp11Gate(half_turns) ==
    Gate("Exp11Gate", canonicalize_half_turns(half_turns), Absent, "")

\* The sign flip without negating half_turns.
ExpWGate_keep_sign(half_turns, axis_half_turns) ==
    LET h == canonicalize_half_turns(half_turns)
        a == canonicalize_half_turns(axis_half_turns)
    IN  IF /\ ~IsSymbol(h)
           /\ ~IsSymbol(a)
           /\ ~(0 <= a.raw /\ a.raw < One)
        THEN Gate("ExpWGate", h, canonicalize_half_turns(Plus(a, One)), "")
        ELSE Gate("ExpWGate", h, a, "")

\* No sign flip at all.
ExpWGate_no_flip(half_turns, axis_half_turns) ==
    Gate("ExpWGate", canonicalize_half_turns(half_turns),
         canonicalize_half_turns(axis_half_turns), "")

ExpWGate(half_turns, axis_half_turns) ==
    LET h == canonicalize_half_turns(half_turns)
        a == canonicalize_half_turns(axis_half_turns)
    IN  IF /\ ~IsSymbol(h)
           /\ ~IsSymbol(a)
           /\ ~(0 <= a.raw /\ a.raw < One)
        THEN Gate("ExpWGate",
                  canonicalize_half_turns(Neg(h)),
                  canonicalize_half_turns(Plus(a, One)), "")
        ELSE Gate("ExpWGate", h, a, "")

XmonMeasurementGate(key) == Gate("XmonMeasurementGate", Absent, Absent, key)

----------------------------------------------------------------------------
(* Wire forms: operations_pb2.Operation, ParameterizedFloat, and qubits.    *)

UnsetQubit == [set |-> FALSE, id |-> ""]
XmonQubit_to_proto(q) == [set |-> TRUE, id |-> q]
XmonQubit_from_proto(w) == w.id

UnsetFloat == [which |-> "unset", raw |-> 0, parameter_key |-> ""]
RawField(x) == [which |-> "raw", raw |-> x, parameter_key |-> ""]
KeyField(n) == [which |-> "parameter_key", raw |-> 0, parameter_key |-> n]

\* operations_pb2.Operation(): no case of the oneof populated.
EmptyOperation ==
    [which |-> "unset", target |-> UnsetQubit, target1 |-> UnsetQubit,
     target2 |-> UnsetQubit, targets |-> <<>>, half_turns |-> UnsetFloat,
     axis_half_turns |-> UnsetFloat, key |-> ""]
\* No message at all (nothing encoded or received yet).
NoMsg == [EmptyOperation EXCEPT !.which = "none"]

NoMatrix == [kind |-> "none", h |-> 0, a |-> 0]

\* What a call produces: a returned value or a raised error.
Ok ==
    [ok |-> TRUE, err |-> "", gate |-> NoGate, qubits |-> <<>>, msg |-> NoMsg,
     bool |-> FALSE, value |-> Absent, matrix |-> NoMatrix]
Raise(e) == [Ok EXCEPT !.ok = FALSE, !.err = e]
ReturnGate(g) == [Ok EXCEPT !.gate = g]
ReturnOp(g, qs) == [Ok EXCEPT !.gate = g, !.qubits = qs]
ReturnMsg(m) == [Ok EXCEPT !.msg = m]
ReturnBool(b) == [Ok EXCEPT !.bool = b]
ReturnValue(v) == [Ok EXCEPT !.value = v]
ReturnMatrix(m) == [Ok EXCEPT !.matrix = m]

\* An unset value decodes to 0.0 instead of failing.
parameterized_value_from_proto_default(message) ==
    IF message.which = "parameter_key" THEN ReturnValue(Symbol(message.parameter_key))
    ELSE ReturnValue(Float(message.raw))

parameterized_value_from_proto(message) ==
    IF message.which = "raw" THEN ReturnValue(Float(message.raw))
    ELSE IF message.which = "parameter_key"
         THEN ReturnValue(Symbol(message.parameter_key))
         ELSE Raise("ValueError")

\* A Symbol written to the raw field.
parameterized_value_to_proto_raw(param) == RawField(param.raw)

parameterized_value_to_proto(param) ==
    IF IsSymbol(param) THEN KeyField(param.name) ELSE RawField(param.raw)

\* The zero-qubit check left out.
XmonMeasurementGate_to_proto_unchecked(g, qs) ==
    ReturnMsg([EmptyOperation EXCEPT
                 !.which = "measurement",
                 !.targets = [i \in 1..Len(qs) |-> XmonQubit_to_proto(qs[i])],
                 !.key = g.key])

XmonMeasurementGate_to_proto(g, qs) ==
    IF Len(qs) = 0 THEN Raise("ValueError")
    ELSE ReturnMsg([EmptyOperation EXCEPT
                      !.which = "measurement",
                      !.targets = [i \in 1..Len(qs) |-> XmonQubit_to_proto(qs[i])],
                      !.key = g.key])

Exp11Gate_to_proto(g, qs) ==
    IF Len(qs) # 2 THEN Raise("ValueError")
    ELSE ReturnMsg([EmptyOperation EXCEPT
                      !.which = "exp_11",
                      !.target1 = XmonQubit_to_proto(qs[1]),
                      !.target2 = XmonQubit_to_proto(qs[2]),
                      !.half_turns = parameterized_value_to_proto(g.half_turns)])

\* half_turns and axis_half_turns written to each other's field.
ExpWGate_to_proto_swapped(g, qs) ==
    IF Len(qs) # 1 THEN Raise("ValueError")
    ELSE ReturnMsg([EmptyOperation EXCEPT
                      !.which = "exp_w",
                      !.target = XmonQubit_to_proto(qs[1]),
                      !.axis_half_turns = parameterized_value_to_proto(g.half_turns),
                      !.half_turns = parameterized_value_to_proto(g.axis_half_turns)])

ExpWGate_to_proto(g, qs) ==
    IF Len(qs) # 1 THEN Raise("ValueError")
    ELSE ReturnMsg([EmptyOperation EXCEPT
                      !.which = "exp_w",
                      !.target = XmonQubit_to_proto(qs[1]),
                      !.axis_half_turns = parameterized_value_to_proto(g.axis_half_turns),
                      !.half_turns = parameterized_value_to_proto(g.half_turns)])

ExpZGate_to_proto(g, qs) ==
    IF Len(qs) # 1 THEN Raise("ValueError")
    ELSE ReturnMsg([EmptyOperation EXCEPT
                      !.which = "exp_z",
                      !.target = XmonQubit_to_proto(qs[1]),
                      !.half_turns = parameterized_value_to_proto(g.half_turns)])

\* gate.to_proto(*qubits), dispatched on the gate's class.
to_proto(g, qs) ==
    CASE g.type = "ExpWGate" -> ExpWGate_to_proto(g, qs)
      [] g.type = "ExpZGate" -> ExpZGate_to_proto(g, qs)
      [] g.type = "Exp11Gate" -> Exp11Gate_to_proto(g, qs)
      [] OTHER -> XmonMeasurementGate_to_proto(g, qs)

from_proto(op) ==
    CASE op.which = "exp_w" ->
           LET h == parameterized_value_from_proto(op.half_turns)
               a == parameterized_value_from_proto(op.axis_half_turns)
           IN  IF ~h.ok THEN h
               ELSE IF ~a.ok THEN a
               ELSE ReturnOp(ExpWGate(h.value, a.value),
                             <<XmonQubit_from_proto(op.target)>>)
      [] op.which = "exp_z" ->
           LET h == parameterized_value_from_proto(op.half_turns)
           IN  IF ~h.ok THEN h
               ELSE ReturnOp(ExpZGate(h.value), <<XmonQubit_from_proto(op.target)>>)
      [] op.which = "exp_11" ->
           LET h == parameterized_value_from_proto(op.half_turns)
           IN  IF ~h.ok THEN h
               ELSE ReturnOp(Exp11Gate(h.value),
                             <<XmonQubit_from_proto(op.target1),
                               XmonQubit_from_proto(op.target2)>>)
      [] op.which = "measurement" ->
           ReturnOp(XmonMeasurementGate(op.key),
                    [i \in 1..Len(op.targets) |-> XmonQubit_from_proto(op.targets[i])])
      [] OTHER -> Raise("ValueError")

----------------------------------------------------------------------------
(* Gate methods: inverse, matrix, phase_by.                                 *)

ExpWGate_has_inverse(g) == ~IsSymbol(g.half_turns)

\* The axis negated along with half_turns.
ExpWGate_inverse_neg_axis(g) ==
    IF ~ExpWGate_has_inverse(g) THEN Raise("ValueError")
    ELSE ReturnGate(ExpWGate(Neg(g.half_turns),
                             IF IsSymbol(g.axis_half_turns) THEN g.axis_half_turns
                             ELSE Neg(g.axis_half_turns)))

ExpWGate_inverse(g) ==
    IF ~ExpWGate_has_inverse(g) THEN Raise("ValueError")
    ELSE ReturnGate(ExpWGate(Neg(g.half_turns), g.axis_half_turns))

ExpZGate_has_inverse(g) == ~IsSymbol(g.half_turns)

ExpZGate_inverse(g) ==
    IF ~ExpZGate_has_inverse(g) THEN Raise("ValueError")
    ELSE ReturnGate(ExpZGate(Neg(g.half_turns)))

\* Only half_turns is looked at.
ExpWGate_has_matrix_half_only(g) == ~IsSymbol(g.half_turns)

ExpWGate_has_matrix(g) ==
    ~IsSymbol(g.half_turns) /\ ~IsSymbol(g.axis_half_turns)

\* phase . rot . conj(phase), named by the two numbers that determine it.
ExpWGate_matrix(g) ==
    IF ~ExpWGate_has_matrix(g) THEN Raise("ValueError")
    ELSE ReturnMatrix([kind |-> "PhasedRot", h |-> g.half_turns.raw,
                       a |-> g.axis_half_turns.raw])

ExpZGate_has_matrix(g) == ~IsSymbol(g.half_turns)

ExpZGate_matrix(g) ==
    IF ~ExpZGate_has_matrix(g) THEN Raise("ValueError")
    ELSE ReturnMatrix([kind |-> "RotZ", h |-> g.half_turns.raw, a |-> 0])

Exp11Gate_has_matrix(g) == ~IsSymbol(g.half_turns)

Exp11Gate_matrix(g) ==
    IF ~Exp11Gate_has_matrix(g) THEN Raise("ValueError")
    ELSE ReturnMatrix([kind |-> "Rot11", h |-> g.half_turns.raw, a |-> 0])

has_inverse(g) ==
    IF g.type = "ExpWGate" THEN ExpWGate_has_inverse(g) ELSE ExpZGate_has_inverse(g)

inverse(g) == IF g.type = "ExpWGate" THEN ExpWGate_inverse(g) ELSE ExpZGate_inverse(g)

has_matrix(g) ==
    CASE g.type = "ExpWGate" -> ExpWGate_has_matrix(g)
      [] g.type = "ExpZGate" -> ExpZGate_has_matrix(g)
      [] OTHER -> Exp11Gate_has_matrix(g)

matrix(g) ==
    CASE g.type = "ExpWGate" -> ExpWGate_matrix(g)
      [] g.type = "ExpZGate" -> ExpZGate_matrix(g)
      [] OTHER -> Exp11Gate_matrix(g)

\* Symbol + number: the Symbol class defines no arithmetic.
SymbolPlus(p, d) == IF IsSymbol(p) THEN Raise("TypeError") ELSE ReturnValue(Plus(p, d))

\* phase_turns added once instead of twice.
ExpWGate_phase_by_once(g, phase_turns) ==
    LET a == SymbolPlus(g.axis_half_turns, phase_turns)
    IN  IF ~a.ok THEN a ELSE ReturnGate(ExpWGate(g.half_turns, a.value))

ExpWGate_phase_by(g, phase_turns) ==
    LET a == SymbolPlus(g.axis_half_turns, phase_turns * 2)
    IN  IF ~a.ok THEN a ELSE ReturnGate(ExpWGate(g.half_turns, a.value))

Exp11Gate_phase_by(g, phase_turns) == ReturnGate(g)

phase_by(g, phase_turns) ==
    IF g.type = "ExpWGate" THEN ExpWGate_phase_by(g, phase_turns)
    ELSE Exp11Gate_phase_by(g, phase_turns)

----------------------------------------------------------------------------
(* Equality and hashing.  __eq__ answers "True", "False" or                 *)
(* "NotImplemented"; a hash is the tuple the source hashes.                 *)

\* The gate classes of cirq.ops that the xmon gates compare against.
RotXGate(half_turns) == Gate("RotXGate", half_turns, Absent, "")
RotYGate(half_turns) == Gate("RotYGate", half_turns, Absent, "")
Rot11Gate(half_turns) == Gate("Rot11Gate", half_turns, Absent, "")

Bool(b) == IF b THEN "True" ELSE "False"
HashKey(cls, h, a) == [cls |-> cls, h |-> h, a |-> a, key |-> ""]

\* RotYGate is recognised on axis 0 as well.
ExpWGate_eq_y_on_zero(self, o) ==
    CASE o.type = "RotXGate" ->
           Bool(self.axis_half_turns = Float(0) /\ self.half_turns = o.half_turns)
      [] o.type = "RotYGate" ->
           Bool(self.axis_half_turns = Float(0) /\ self.half_turns = o.half_turns)
      [] o.type = "ExpWGate" ->
           Bool(/\ self.half_turns = o.half_turns
                /\ self.axis_half_turns = o.axis_half_turns)
      [] OTHER -> "NotImplemented"

ExpWGate_eq(self, o) ==
    CASE o.type = "RotXGate" ->
           Bool(self.axis_half_turns = Float(0) /\ self.half_turns = o.half_turns)
      [] o.type = "RotYGate" ->
           Bool(self.axis_half_turns = Float(Half) /\ self.half_turns = o.half_turns)
      [] o.type = "ExpWGate" ->
           Bool(/\ self.half_turns = o.half_turns
                /\ self.axis_half_turns = o.axis_half_turns)
      [] OTHER -> "NotImplemented"

ExpWGate_hash(self) ==
    IF self.axis_half_turns = Float(0) THEN HashKey("RotXGate", self.half_turns, Absent)
    ELSE IF self.axis_half_turns = Float(Half)
         THEN HashKey("RotYGate", self.half_turns, Absent)
         ELSE HashKey("ExpWGate", self.half_turns, self.axis_half_turns)

ExpZGate_eq(self, o) ==
    IF o.type # "ExpZGate" THEN "NotImplemented"
    ELSE Bool(self.half_turns = o.half_turns)

ExpZGate_hash(self) == HashKey("ExpZGate", self.half_turns, Absent)

Exp11Gate_eq(self, o) ==
    IF o.type \notin {"Rot11Gate", "Exp11Gate"} THEN "NotImplemented"
    ELSE Bool(self.half_turns = o.half_turns)

Exp11Gate_hash(self) == HashKey("Rot11Gate", self.half_turns, Absent)

\* cirq.ops: MeasurementGate and the Rot gates compare within their own class.
MeasurementGate_eq(self, o) ==
    IF o.type # self.type THEN "NotImplemented" ELSE Bool(self.key = o.key)
MeasurementGate_hash(self) == [HashKey("MeasurementGate", Absent, Absent) EXCEPT !.key = self.key]
RotGate_eq(self, o) ==
    IF o.type # self.type THEN "NotImplemented" ELSE Bool(self.half_turns = o.half_turns)
RotGate_hash(self) == HashKey(self.type, self.half_turns, Absent)

eq_method(self, o) ==
    CASE self.type = "ExpWGate" -> ExpWGate_eq(self, o)
      [] self.type = "ExpZGate" -> ExpZGate_eq(self, o)
      [] self.type = "Exp11Gate" -> Exp11Gate_eq(self, o)
      [] self.type = "XmonMeasurementGate" -> MeasurementGate_eq(self, o)
      [] OTHER -> RotGate_eq(self, o)

\* Python's a == b: a.__eq__(b), then the reflected b.__eq__(a), then identity.
GateEq(a, b) ==
    LET r == eq_method(a, b)
    IN  IF r # "NotImplemented" THEN r = "True"
        ELSE LET s == eq_method(b, a)
             IN  IF s # "NotImplemented" THEN s = "True" ELSE FALSE

GateHash(g) ==
    CASE g.type = "ExpWGate" -> ExpWGate_hash(g)
      [] g.type = "ExpZGate" -> ExpZGate_hash(g)
      [] g.type = "Exp11Gate" -> Exp11Gate_hash(g)
      [] g.type = "XmonMeasurementGate" -> MeasurementGate_hash(g)
      [] OTHER -> RotGate_hash(g)

----------------------------------------------------------------------------
(* State: one gate under work, the last call made and what it produced, the *)
(* wire message in hand, and a second gate for comparisons.                 *)

VARIABLES
    gate,    \* the gate in hand (NoGate when there is none)
    qubits,  \* the operands it was last applied to
    call,    \* the last call: name, receiver, arguments
    ret,     \* what the last call returned or raised
    msg,     \* the wire message in hand (NoMsg when there is none)
    sent,    \* the operation msg was encoded from (NoOperation when msg came from outside)
    other,   \* the right-hand gate of a comparison, and how it was built
    cmp      \* result of the last gate == other, with both hashes

vars == <<gate, qubits, call, ret, msg, sent, other, cmp>>

NoCall ==
    [name |-> "none", recv |-> NoGate, h |-> Absent, a |-> Absent, key |-> "",
     turns |-> 0, qubits |-> <<>>]
NoOperation == [gate |-> NoGate, qubits |-> <<>>]
NoOther == [gate |-> NoGate, how |-> "none", k |-> 0, m |-> 0]
NoCmp == [done |-> FALSE, eq |-> FALSE, lhash |-> HashKey("", Absent, Absent),
          rhash |-> HashKey("", Absent, Absent)]

QubitSeqs == UNION {[1..n -> Qubits] : n \in 0..MaxQubits}
PhaseTurns == (0 - Res)..Res

ParamFields ==
    {UnsetFloat} \cup {RawField(p.raw) : p \in RawFloats}
                 \cup {KeyField(n) : n \in SymbolNames}

\* Messages that can arrive from outside: any case of the oneof, or none, with
\* any parameter field set or unset.
WireMessages ==
    {EmptyOperation}
    \cup {[EmptyOperation EXCEPT !.which = "exp_w", !.target = XmonQubit_to_proto(q),
                                 !.half_turns = h, !.axis_half_turns = a] :
            q \in Qubits, h \in ParamFields, a \in ParamFields}
    \cup {[EmptyOperation EXCEPT !.which = "exp_z", !.target = XmonQubit_to_proto(q),
                                 !.half_turns = h] :
            q \in Qubits, h \in ParamFields}
    \cup {[EmptyOperation EXCEPT !.which = "exp_11", !.target1 = XmonQubit_to_proto(p),
                                 !.target2 = XmonQubit_to_proto(q), !.half_turns = h] :
            p \in Qubits, q \in Qubits, h \in ParamFields}
    \cup {[EmptyOperation EXCEPT !.which = "measurement", !.key = k,
                                 !.targets = [i \in 1..Len(qs) |-> XmonQubit_to_proto(qs[i])]] :
            k \in Keys, qs \in QubitSeqs}

Init ==
    /\ gate = NoGate
    /\ qubits = <<>>
    /\ call = NoCall
    /\ ret = Ok
    /\ msg = NoMsg
    /\ sent = NoOperation
    /\ other = NoOther
    /\ cmp = NoCmp

\* Nothing has been built or received yet.  A constructor and an arriving
\* message take nothing from the state, so every run starts with one of them.
Idle == gate = NoGate /\ msg = NoMsg

\* A freshly constructed gate g from the recorded arguments.
Fresh(g, c) ==
    /\ gate' = g
    /\ call' = c
    /\ ret' = ReturnGate(g)
    /\ qubits' = <<>>
    /\ msg' = NoMsg
    /\ sent' = NoOperation
    /\ other' = NoOther
    /\ cmp' = NoCmp

NewExpZ(P) ==
    /\ Idle
    /\ \E h \in P :
            Fresh(ExpZGate(h), [NoCall EXCEPT !.name = "ExpZGate", !.h = h])

NewExpW(P) ==
    /\ Idle
    /\ \E h \in P, a \in P :
            Fresh(ExpWGate(h, a), [NoCall EXCEPT !.name = "ExpWGate", !.h = h, !.a = a])

NewExp11(P) ==
    /\ Idle
    /\ \E h \in P :
            Fresh(Exp11Gate(h), [NoCall EXCEPT !.name = "Exp11Gate", !.h = h])

NewMeasurement ==
    /\ Idle
    /\ \E k \in Keys :
            Fresh(XmonMeasurementGate(k),
              [NoCall EXCEPT !.name = "XmonMeasurementGate", !.key = k])

\* gate.to_proto(*qs)
ToProto ==
    /\ gate # NoGate
    /\ \E qs \in QubitSeqs :
         LET r == to_proto(gate, qs)
         IN  /\ ret' = r
             /\ call' = [NoCall EXCEPT !.name = "to_proto", !.recv = gate, !.qubits = qs]
             /\ qubits' = qs
             /\ msg' = r.msg
             /\ sent' = IF r.ok THEN [gate |-> gate, qubits |-> qs] ELSE NoOperation
    /\ UNCHANGED <<gate, other, cmp>>

\* A message arrives from outside.
Receive ==
    /\ Idle
    /\ \E m \in WireMessages :
        /\ msg' = m
        /\ sent' = NoOperation
        /\ gate' = NoGate
        /\ qubits' = <<>>
        /\ call' = [NoCall EXCEPT !.name = "receive"]
        /\ ret' = Ok
        /\ UNCHANGED <<other, cmp>>

\* XmonGate.from_proto(msg)
FromProto ==
    /\ msg # NoMsg
    /\ LET r == from_proto(msg)
       IN  /\ ret' = r
           /\ call' = [NoCall EXCEPT !.name = "from_proto"]
           /\ gate' = r.gate
           /\ qubits' = r.qubits
    /\ UNCHANGED <<msg, sent, other, cmp>>

\* A call on the gate in hand that returns a gate: the result replaces it.
Derive(name, turns, r) ==
    /\ ret' = r
    /\ call' = [NoCall EXCEPT !.name = name, !.recv = gate, !.turns = turns]
    /\ gate' = IF r.ok THEN r.gate ELSE gate
    /\ qubits' = <<>>
    /\ msg' = NoMsg
    /\ sent' = NoOperation
    /\ UNCHANGED <<other, cmp>>

Inverse ==
    /\ gate.type \in {"ExpWGate", "ExpZGate"}
    /\ Derive("inverse", 0, inverse(gate))

PhaseBy ==
    /\ gate.type \in {"ExpWGate", "Exp11Gate"}
    /\ \E t \in PhaseTurns : Derive("phase_by", t, phase_by(gate, t))

\* A call on the gate in hand that leaves it in hand.
Query(name, r) ==
    /\ ret' = r
    /\ call' = [NoCall EXCEPT !.name = name, !.recv = gate]
    /\ UNCHANGED <<gate, qubits, msg, sent, other, cmp>>

HasInverse ==
    /\ gate.type \in {"ExpWGate", "ExpZGate"}
    /\ Query("has_inverse", ReturnBool(has_inverse(gate)))

HasMatrix ==
    /\ gate.type \in {"ExpWGate", "ExpZGate", "Exp11Gate"}
    /\ Query("has_matrix", ReturnBool(has_matrix(gate)))

Matrix ==
    /\ gate.type \in {"ExpWGate", "ExpZGate", "Exp11Gate"}
    /\ Query("matrix", matrix(gate))

Next ==
    \/ NewExpZ(RawParams)
    \/ NewExpW(RawParams)
    \/ NewExp11(RawParams)
    \/ NewMeasurement
    \/ ToProto
    \/ Receive
    \/ FromProto
    \/ Inverse
    \/ PhaseBy
    \/ HasInverse
    \/ HasMatrix
    \/ Matrix

Spec == Init /\ [][Next]_vars

----------------------------------------------------------------------------
(* Comparisons: a second gate is built next to the first one, either as     *)
(* another description of the same rotation or freely, and the two are      *)
(* compared.                                                                *)

Constructed == call.name \in {"ExpZGate", "ExpWGate", "Exp11Gate"} /\ IsFloat(call.h)
Shifts == (0 - Wraps)..Wraps

\* The same constructor on half_turns + 2k (and axis_half_turns + 2m).
SameRotation ==
    /\ Constructed
    /\ other = NoOther
    /\ \E k \in Shifts, m \in Shifts :
         /\ call.name = "ExpWGate" => IsFloat(call.a)
         /\ other' =
              [gate |-> CASE call.name = "ExpWGate" ->
                               ExpWGate(Plus(call.h, k * Two), Plus(call.a, m * Two))
                          [] call.name = "ExpZGate" -> ExpZGate(Plus(call.h, k * Two))
                          [] OTHER -> Exp11Gate(Plus(call.h, k * Two)),
               how |-> "same", k |-> k, m |-> m]
    /\ UNCHANGED <<gate, qubits, call, ret, msg, sent, cmp>>

\* ExpWGate on the opposite axis with the opposite angle.
Antipodal ==
    /\ Constructed
    /\ call.name = "ExpWGate"
    /\ IsFloat(call.a)
    /\ other = NoOther
    /\ \E k \in Shifts, m \in Shifts :
         other' = [gate |-> ExpWGate(Plus(Neg(call.h), k * Two),
                                     Plus(call.a, One + m * Two)),
                   how |-> "antipodal", k |-> k, m |-> m]
    /\ UNCHANGED <<gate, qubits, call, ret, msg, sent, cmp>>

OtherGates ==
    {ExpWGate(h, a) : h \in RangeParams, a \in RangeParams}
    \cup {ExpZGate(h) : h \in RangeParams}
    \cup {Exp11Gate(h) : h \in RangeParams}
    \cup {XmonMeasurementGate(k) : k \in Keys}
    \cup {RotXGate(h) : h \in RangeParams}
    \cup {RotYGate(h) : h \in RangeParams}
    \cup {Rot11Gate(h) : h \in RangeParams}

AnyOther ==
    /\ gate # NoGate
    /\ other = NoOther
    /\ \E g \in OtherGates : other' = [NoOther EXCEPT !.gate = g, !.how = "any"]
    /\ UNCHANGED <<gate, qubits, call, ret, msg, sent, cmp>>

\* gate == other, hash(gate), hash(other)
Compare ==
    /\ other # NoOther
    /\ ~cmp.done
    /\ cmp' = [done |-> TRUE, eq |-> GateEq(gate, other.gate),
               lhash |-> GateHash(gate), rhash |-> GateHash(other.gate)]
    /\ UNCHANGED <<gate, qubits, call, ret, msg, sent, other>>

NextEq ==
    \/ NewExpZ(RangeParams)
    \/ NewExpW(RangeParams)
    \/ NewExp11(RangeParams)
    \/ NewMeasurement
    \/ SameRotation
    \/ Antipodal
    \/ AnyOther
    \/ Compare

SpecEq == Init /\ [][NextEq]_vars

----------------------------------------------------------------------------
(* Properties.                                                              *)

InHalfTurnRange(x) == 0 - One < x /\ x <= One
InAxisRange(x) == 0 <= x /\ x < One
AnySymbolic(g) == IsSymbol(g.half_turns) \/ IsSymbol(g.axis_half_turns)
\* The classes that define __eq__ and __hash__ themselves.
ModuleTypes == {"ExpZGate", "ExpWGate", "Exp11Gate"}

\* C1: decoding the message that to_proto produced for an operation gives an
\* operation with an equal gate (same class, equal half_turns, axis_half_turns
\* and key) on the same qubits in the same order.
C1_RoundTrip ==
    (call.name = "from_proto" /\ sent # NoOperation) =>
        /\ ret.ok
        /\ GateEq(gate, sent.gate)
        /\ gate.type = sent.gate.type
        /\ gate.half_turns = sent.gate.half_turns
        /\ gate.axis_half_turns = sent.gate.axis_half_turns
        /\ gate.key = sent.gate.key
        /\ qubits = sent.qubits

C1_Witness ==
    /\ call.name = "from_proto"
    /\ sent.gate.type = "ExpWGate"
    /\ IsSymbol(sent.gate.half_turns)
    /\ IsFloat(sent.gate.axis_half_turns)
    /\ sent.gate.axis_half_turns.raw < 0
    /\ ret.ok

\* C2 as stated: every ExpWGate with a constant axis_half_turns has it in
\* [0, 1), whether half_turns is a constant or a symbol.
C2_AxisInRangeAlways ==
    (gate.type = "ExpWGate" /\ IsFloat(gate.axis_half_turns)) =>
        InAxisRange(gate.axis_half_turns.raw)

\* C2 amended: every ExpWGate whose half_turns and axis_half_turns are both
\* constants has axis_half_turns in [0, 1), however the gate was obtained.
C2_AxisInRangeBothConstant ==
    (/\ gate.type = "ExpWGate"
     /\ IsFloat(gate.axis_half_turns)
     /\ IsFloat(gate.half_turns)) =>
        InAxisRange(gate.axis_half_turns.raw)

C2_Witness ==
    /\ call.name = "phase_by"
    /\ ret.ok
    /\ gate.type = "ExpWGate"
    /\ IsFloat(gate.half_turns)
    /\ call.recv.axis_half_turns.raw + 2 * call.turns < 0
    /\ gate.half_turns # call.recv.half_turns

\* C3: a constant half_turns of any ExpZGate, ExpWGate or Exp11Gate lies in
\* (-1, 1]; a symbolic half_turns given to a constructor is stored unchanged.
C3_HalfTurnsInRange ==
    /\ (gate.type \in {"ExpZGate", "ExpWGate", "Exp11Gate"} /\ IsFloat(gate.half_turns)) =>
           InHalfTurnRange(gate.half_turns.raw)
    /\ (call.name \in {"ExpZGate", "ExpWGate", "Exp11Gate"} /\ IsSymbol(call.h)) =>
           gate.half_turns = call.h

\* The sign flip of ExpWGate turned a half_turns of 1 (mod 2) into 1 again.
C3_Witness ==
    /\ call.name = "ExpWGate"
    /\ IsFloat(call.h)
    /\ IsFloat(call.a)
    /\ call.h.raw % Two = One
    /\ call.a.raw % Two > One
    /\ gate.half_turns = Float(One)

PhaseByOnConstants ==
    /\ call.name = "phase_by"
    /\ call.recv.type = "ExpWGate"
    /\ IsFloat(call.recv.half_turns)
    /\ IsFloat(call.recv.axis_half_turns)

\* C4 as stated: phase_by on constants (h, a) returns a gate whose half_turns
\* is h and whose axis_half_turns is the sum a + 2*turns itself.
C4_PhaseByKeepsSum ==
    PhaseByOnConstants =>
        /\ ret.ok
        /\ gate.type = "ExpWGate"
        /\ gate.half_turns = call.recv.half_turns
        /\ gate.axis_half_turns = Float(call.recv.axis_half_turns.raw + 2 * call.turns)

\* C4 amended: phase_by on constants (h, a) returns a canonical ExpWGate: its
\* axis_half_turns is a + 2*turns reduced modulo 1 into [0, 1), and its
\* half_turns is h when (a + 2*turns) mod 2 is below 1 and the canonical form
\* of -h (1 for h = 1, else -h) otherwise.
C4_PhaseByCanonical ==
    PhaseByOnConstants =>
        LET h == call.recv.half_turns.raw
            sum == call.recv.axis_half_turns.raw + 2 * call.turns
        IN  /\ ret.ok
            /\ gate.type = "ExpWGate"
            /\ gate.axis_half_turns = Float(sum % One)
            /\ gate.half_turns =
                 Float(IF sum % Two < One \/ h = One THEN h ELSE 0 - h)

C4_Witness ==
    /\ PhaseByOnConstants
    /\ call.turns # 0
    /\ gate.half_turns # call.recv.half_turns
    /\ gate.axis_half_turns.raw # call.recv.axis_half_turns.raw + 2 * call.turns

\* C5: two constructions of the same rotation (half_turns + 2k, axis_half_turns
\* + 2m, or the antipodal axis with the negated angle) end with the same
\* canonical parameters, compare equal and hash equal; and any two gates of
\* this module that compare equal have equal hashes.
C5_SameRotationEqual ==
    cmp.done =>
        /\ other.how \in {"same", "antipodal"} =>
             /\ cmp.eq
             /\ gate.half_turns = other.gate.half_turns
             /\ gate.axis_half_turns = other.gate.axis_half_turns
        /\ (cmp.eq /\ gate.type \in ModuleTypes /\ other.gate.type \in ModuleTypes) =>
             cmp.lhash = cmp.rhash

C5_Witness ==
    /\ cmp.done
    /\ other.how = "antipodal"
    /\ other.k # 0
    /\ call.h.raw \notin {0, One}
    /\ cmp.eq
    /\ cmp.lhash = cmp.rhash

\* C6: has_matrix() is true exactly when no parameter of the gate is symbolic,
\* and matrix() returns a matrix exactly then and raises otherwise.
C6_MatrixGating ==
    /\ call.name = "has_matrix" => (ret.bool <=> ~AnySymbolic(call.recv))
    /\ call.name = "matrix" =>
         /\ ret.ok <=> ~AnySymbolic(call.recv)
         /\ ret.ok => ret.matrix # NoMatrix
         /\ ~ret.ok => (ret.matrix = NoMatrix /\ ret.err = "ValueError")

C6_Witness ==
    /\ call.name = "matrix"
    /\ call.recv.type = "ExpWGate"
    /\ IsFloat(call.recv.half_turns)
    /\ IsSymbol(call.recv.axis_half_turns)
    /\ ~ret.ok

RightArity(g, n) ==
    CASE g.type \in {"ExpZGate", "ExpWGate"} -> n = 1
      [] g.type = "Exp11Gate" -> n = 2
      [] OTHER -> n >= 1

\* C7: to_proto succeeds exactly on the right number of qubits (1 for ExpZGate
\* and ExpWGate, 2 for Exp11Gate, at least 1 for XmonMeasurementGate); on
\* failure there is no message and the gate is unchanged; a measurement message
\* carries the gate's key and the targets in the order given.
C7_ArityEnforced ==
    call.name = "to_proto" =>
        /\ ret.ok <=> RightArity(call.recv, Len(call.qubits))
        /\ gate = call.recv
        /\ ~ret.ok => (msg = NoMsg /\ ret.msg = NoMsg /\ ret.err = "ValueError")
        /\ (ret.ok /\ gate.type = "XmonMeasurementGate") =>
             /\ msg.which = "measurement"
             /\ msg.key = gate.key
             /\ Len(msg.targets) = Len(call.qubits)
             /\ \A i \in 1..Len(call.qubits) : msg.targets[i].id = call.qubits[i]

C7_Witness ==
    /\ call.name = "to_proto"
    /\ call.recv.type = "XmonMeasurementGate"
    /\ Len(call.qubits) = 0
    /\ ~ret.ok

Malformed(m) ==
    \/ m.which = "unset"
    \/ m.which \in {"exp_w", "exp_z", "exp_11"} /\ m.half_turns.which = "unset"
    \/ m.which = "exp_w" /\ m.axis_half_turns.which = "unset"

VariantOf(which) ==
    CASE which = "exp_w" -> "ExpWGate"
      [] which = "exp_z" -> "ExpZGate"
      [] which = "exp_11" -> "Exp11Gate"
      [] OTHER -> "XmonMeasurementGate"

\* C8: from_proto raises, and returns no operation, when the message has no
\* case populated or a parameter of the populated case has neither raw nor
\* parameter_key set; otherwise it returns a gate of the class the populated
\* case names.
C8_DecodeFallible ==
    call.name = "from_proto" =>
        /\ Malformed(msg) => (~ret.ok /\ ret.err = "ValueError" /\ gate = NoGate)
        /\ ~Malformed(msg) => (ret.ok /\ gate.type = VariantOf(msg.which))

C8_Witness ==
    /\ call.name = "from_proto"
    /\ msg.which = "exp_w"
    /\ msg.half_turns.which = "raw"
    /\ msg.axis_half_turns.which = "unset"
    /\ ~ret.ok

\* C9: an ExpWGate equals RotXGate(h) exactly when its axis_half_turns is 0 and
\* its half_turns is h, and then hashes as (RotXGate, h); it equals RotYGate(h)
\* exactly when its axis_half_turns is 0.5 and its half_turns is h, and then
\* hashes as (RotYGate, h).
C9_CrossVariantEquality ==
    (cmp.done /\ gate.type = "ExpWGate") =>
        LET axis(x) == /\ IsFloat(gate.axis_half_turns)
                       /\ gate.axis_half_turns.raw = x
            sameHalf == gate.half_turns = other.gate.half_turns
        IN  /\ other.gate.type = "RotXGate" => (cmp.eq <=> (axis(0) /\ sameHalf))
            /\ other.gate.type = "RotYGate" => (cmp.eq <=> (axis(Half) /\ sameHalf))
            /\ axis(0) => cmp.lhash = HashKey("RotXGate", gate.half_turns, Absent)
            /\ axis(Half) => cmp.lhash = HashKey("RotYGate", gate.half_turns, Absent)

C9_Witness ==
    /\ cmp.done
    /\ gate.type = "ExpWGate"
    /\ other.gate.type = "RotYGate"
    /\ cmp.eq
    /\ cmp.lhash = HashKey("RotYGate", other.gate.half_turns, Absent)

\* C10: inverse() succeeds exactly when half_turns is a constant; the result is
\* a gate of the same class with the same axis_half_turns whose half_turns is in
\* (-1, 1] and sums with the original's to 0 modulo 2, and the inverse of the
\* result equals the original.
C10_InverseLaw ==
    /\ call.name = "has_inverse" => (ret.bool <=> IsFloat(call.recv.half_turns))
    /\ call.name = "inverse" =>
         /\ ret.ok <=> IsFloat(call.recv.half_turns)
         /\ ~ret.ok => (gate = call.recv /\ ret.gate = NoGate /\ ret.err = "ValueError")
         /\ ret.ok =>
              /\ gate.type = call.recv.type
              /\ gate.axis_half_turns = call.recv.axis_half_turns
              /\ IsFloat(gate.half_turns)
              /\ InHalfTurnRange(gate.half_turns.raw)
              /\ (gate.half_turns.raw + call.recv.half_turns.raw) % Two = 0
              /\ inverse(gate).ok
              /\ GateEq(inverse(gate).gate, call.recv)

C10_Witness ==
    /\ call.name = "inverse"
    /\ call.recv.type = "ExpWGate"
    /\ IsSymbol(call.recv.axis_half_turns)
    /\ call.recv.half_turns.raw \notin {0, One}
    /\ ret.ok
    /\ gate.half_turns.raw = 0 - call.recv.half_turns.raw

====
